---- MODULE Spec2Model ----
(***************************************************************************)
(* Model of the document-clustering core of xapian-core/cluster/cluster.cc *)
(* (MSetDocumentSource, TermListGroup, PointType/Point/Centroid, Cluster,  *)
(* ClusterSet) and of the RoundRobin and KMeans clusterers declared in     *)
(* cluster.h.                                                              *)
(*                                                                         *)
(* A double is a pair <<n, d>>: d > 0 is the rational n/d in lowest terms, *)
(* <<1,0>> is +inf, <<-1,0>> is -inf and <<0,0>> is NaN.  Rounding of      *)
(* finite doubles is not modelled.  log() is modelled in fixed point.      *)
(*                                                                         *)
(* Operators that use an argument more than once bind it through a         *)
(* singleton set, CHOOSE r \in {e : x \in {a}} : TRUE, which is e with x = a *)
(* and has TLC evaluate a once instead of once per use.                    *)
(***************************************************************************)
EXTENDS Integers, Sequences, FiniteSets, TLC

VARIABLES
    pt,         \* the PointType object under test (a Point or a Centroid)
    cluster,    \* a stand-alone Cluster object
    clusters,   \* ClusterSet::clusters, a vector<Cluster>
    ret,        \* the last call made and what it gave back to the caller
    mset,       \* the MSet: a ranked sequence of document ids
    docs,       \* the MSetDocumentSource iterated by add_documents
    tlg,        \* the TermListGroup: termfreq map and docs_num
    pc,         \* control position of the running operation
    hist,       \* history of the calls made so far (observation only)
    km,         \* the clusterer object (KMeans or RoundRobin) and its locals
    ncalls,     \* number of API calls made so far (bounds the runs)
    titer       \* a PointTermIterator over pt's termlist

vars == <<pt, cluster, clusters, ret, mset, docs, tlg, pc, hist, km, ncalls, titer>>

-----------------------------------------------------------------------------
(* Bounds of the model *)

MaxCalls == 4
MaxMSet == 3
MaxK == 3
MaxIters == 2
MaxClusters == 2
MaxPoints == 2

-----------------------------------------------------------------------------
(* Doubles *)

Abs(n) == IF n < 0 THEN -n ELSE n

Sgn(n) == IF n < 0 THEN -1 ELSE IF n = 0 THEN 0 ELSE 1

RECURSIVE GCD(_, _)
GCD(a, b) ==
    CHOOSE r \in {IF y = 0 THEN x ELSE GCD(y, x % y) : x \in {a}, y \in {b}} : TRUE

Norm(n, d) ==
    CHOOSE r \in
      {IF x = 0 THEN <<0, 1>>
       ELSE CHOOSE q \in {<<(Sgn(y) * x) \div g, Abs(y) \div g>> :
                             g \in {GCD(Abs(x), Abs(y))}} : TRUE
       : x \in {n}, y \in {d}} : TRUE

Zero == <<0, 1>>
NaN == <<0, 0>>
PosInf == <<1, 0>>
NegInf == <<-1, 0>>

D(n) == <<n, 1>>

IsFinite(x) == x[2] # 0
IsNaN(x) == x = NaN

DAdd(a, b) ==
    CHOOSE r \in
      {IF IsFinite(x) /\ IsFinite(y)
       THEN Norm(x[1] * y[2] + y[1] * x[2], x[2] * y[2])
       ELSE IF IsNaN(x) \/ IsNaN(y) THEN NaN
       ELSE IF ~IsFinite(x) /\ ~IsFinite(y) THEN (IF x = y THEN x ELSE NaN)
       ELSE IF ~IsFinite(x) THEN x ELSE y
       : x \in {a}, y \in {b}} : TRUE

DMul(a, b) ==
    CHOOSE r \in
      {IF IsFinite(x) /\ IsFinite(y) THEN Norm(x[1] * y[1], x[2] * y[2])
       ELSE IF IsNaN(x) \/ IsNaN(y) THEN NaN
       ELSE IF x[1] = 0 \/ y[1] = 0 THEN NaN
       ELSE <<Sgn(x[1]) * Sgn(y[1]), 0>>
       : x \in {a}, y \in {b}} : TRUE

\* x / y; a zero divisor is +0 (every divisor of the program is a converted
\* unsigned or int count).
DDiv(a, b) ==
    CHOOSE r \in
      {IF IsNaN(x) \/ IsNaN(y) THEN NaN
       ELSE IF ~IsFinite(x)
            THEN (IF ~IsFinite(y) THEN NaN
                  ELSE <<Sgn(x[1]) * (IF y[1] < 0 THEN -1 ELSE 1), 0>>)
       ELSE IF ~IsFinite(y) THEN Zero
       ELSE IF y[1] = 0 THEN (IF x[1] = 0 THEN NaN ELSE <<Sgn(x[1]), 0>>)
       ELSE Norm(x[1] * y[2], x[2] * y[1])
       : x \in {a}, y \in {b}} : TRUE

DLess(x, y) == /\ ~IsNaN(x) /\ ~IsNaN(y)
               /\ IF IsFinite(x) /\ IsFinite(y) THEN x[1] * y[2] < y[1] * x[2]
                  ELSE IF ~IsFinite(x) /\ ~IsFinite(y) THEN x[1] < y[1]
                  ELSE IF ~IsFinite(x) THEN x[1] < 0 ELSE y[1] > 0

\* Fixed-point logarithm: LnInt(n) = floor(2 * log2(n)), the natural logarithm
\* in units of ln(2)/2; in these units 1.0 is 2.885..., kept as 3.
LnInt(n) == CHOOSE e \in 0..(2 * n) : 2^e <= n * n /\ 2^(e + 1) > n * n

DLog(a) ==
    CHOOSE r \in
      {IF IsNaN(x) THEN NaN
       ELSE IF ~IsFinite(x) THEN (IF x[1] > 0 THEN PosInf ELSE NaN)
       ELSE IF x[1] < 0 THEN NaN
       ELSE IF x[1] = 0 THEN NegInf
       ELSE D(LnInt(x[1]) - LnInt(x[2]))
       : x \in {a}} : TRUE

DOne == D(3)

-----------------------------------------------------------------------------
(* Terms, documents and the MSet *)

Terms == {"a", "b", "c"}

Wdf(term, wdf) == [term |-> term, wdf |-> wdf]

\* The indexed documents: Corpus[id] is the term list of document id, as
\* Document::termlist_begin() enumerates it (sorted, each term once).
Corpus == << <<Wdf("a", 1), Wdf("b", 1)>>,
             <<Wdf("a", 2), Wdf("b", 1)>>,
             <<Wdf("b", 2), Wdf("c", 1)>>,
             <<Wdf("c", 2)>> >>

DocIds == 1..Len(Corpus)

EmptyMap == [t \in {} |-> Zero]

MapPut(m, k, v) ==
    CHOOSE r \in {[x \in (DOMAIN f) \cup {k} |-> IF x = k THEN w ELSE f[x]]
                    : f \in {m}, w \in {v}} : TRUE

RECURSIVE SumSq(_)
SumSq(m) ==
    CHOOSE r \in
      {IF DOMAIN f = {} THEN Zero
       ELSE LET t == CHOOSE x \in DOMAIN f : TRUE
            IN  DAdd(DMul(f[t], f[t]), SumSq([x \in (DOMAIN f) \ {t} |-> f[x]]))
       : f \in {m}} : TRUE

-----------------------------------------------------------------------------
(* PointType, Point, Centroid *)

\* PointType() { magnitude = 0; } with empty values and termlist.
NewCentroid == [termlist |-> <<>>, values |-> EmptyMap, magnitude |-> Zero]

\* A Point is a PointType with the Document it represents (0: none yet).
NewPoint == [doc |-> 0, termlist |-> <<>>, values |-> EmptyMap, magnitude |-> Zero]

PointType_contains(p, term) == term \in DOMAIN p.values

PointType_get_value(p, term) ==
    IF term \notin DOMAIN p.values THEN Zero ELSE p.values[term]

PointType_get_magnitude(p) == p.magnitude

PointType_termlist_size(p) == Len(p.termlist)

PointType_add_value(p, term, value) ==
    IF term \in DOMAIN p.values
    THEN [p EXCEPT !.values[term] = DAdd(@, value)]
    ELSE [p EXCEPT !.termlist = Append(@, Wdf(term, 1)),
                   !.values = MapPut(@, term, value)]

PointType_set_value(p, term, value) ==
    [p EXCEPT !.values = MapPut(@, term, value)]

\* The loop of Centroid::set_to_point over p's termlist from position i.
RECURSIVE set_to_point_loop(_, _, _)
set_to_point_loop(centroid, p, i) ==
    CHOOSE r \in
      {IF i > Len(p.termlist) THEN c
       ELSE LET t == p.termlist[i].term
                v == PointType_get_value(p, t)
            IN  set_to_point_loop(
                    [c EXCEPT !.termlist = Append(@, Wdf(t, 1)),
                              !.values = MapPut(@, t, v),
                              !.magnitude = DAdd(@, DMul(v, v))],
                    p, i + 1)
       : c \in {centroid}} : TRUE

Centroid_set_to_point(c, p) ==
    set_to_point_loop([c EXCEPT !.magnitude = Zero], p, 1)

Centroid_divide(centroid, num) ==
    CHOOSE r \in
      {[c EXCEPT !.values = [t \in DOMAIN c.values |-> DDiv(c.values[t], D(num))]]
       : c \in {centroid}} : TRUE

\* Mutant: clear() that forgets to empty the centroid.
Centroid_clear_nothing(c) == c

Centroid_clear(c) == [c EXCEPT !.values = EmptyMap, !.termlist = <<>>]

Centroid_recalc_magnitude(c) == [c EXCEPT !.magnitude = SumSq(c.values)]

-----------------------------------------------------------------------------
(* MSetDocumentSource *)

\* MSetDocumentSource(const MSet &mset_)
MSetDocumentSource_mset(mset_) == [maxitems |-> Len(mset_), index |-> 0]

\* MSetDocumentSource(const MSet &mset_, doccount maxitems_)
\* Mutant: the constructor without the clip of maxitems to mset.size().
MSetDocumentSource_maxitems_unclipped(mset_, maxitems_) ==
    [maxitems |-> maxitems_, index |-> 0]

MSetDocumentSource_maxitems(mset_, maxitems_) ==
    [maxitems |-> IF maxitems_ > Len(mset_) THEN Len(mset_) ELSE maxitems_,
     index |-> 0]

MSetDocumentSource_at_end(d) == d.index >= d.maxitems

MSetDocumentSource_size(mset_) == Len(mset_)

\* mset[index] is defined only below mset.size().
InMSet(mset_, index) == index < Len(mset_)

-----------------------------------------------------------------------------
(* TermListGroup *)

\* The loop of TermListGroup::add_document over the document's terms from i.
RECURSIVE add_document_loop(_, _, _)
add_document_loop(termfreq, document, i) ==
    CHOOSE r \in
      {IF i > Len(Corpus[document]) THEN f
       ELSE LET t == Corpus[document][i].term
            IN  add_document_loop(
                    IF t \notin DOMAIN f THEN MapPut(f, t, 1)
                    ELSE [f EXCEPT ![t] = @ + 1],
                    document, i + 1)
       : f \in {termfreq}} : TRUE

TermListGroup_add_document(t, document) ==
    [t EXCEPT !.termfreq = add_document_loop(@, document, 1)]

\* The loop of TermListGroup::add_documents: the documents from d.index on.
RECURSIVE add_documents_loop(_, _, _)
add_documents_loop(t, d, mset_) ==
    CHOOSE r \in
      {IF MSetDocumentSource_at_end(src) THEN g
       ELSE add_documents_loop(
                TermListGroup_add_document(g, mset_[src.index + 1]),
                [src EXCEPT !.index = @ + 1], mset_)
       : g \in {t}, src \in {d}} : TRUE

TermListGroup_add_documents(t, d, mset_) ==
    [add_documents_loop(t, d, mset_)
        EXCEPT !.docs_num = MSetDocumentSource_size(mset_)]

TermListGroup_get_doccount(t) == t.docs_num

\* termfreq[tname]: operator[] inserts a zero for a key that is absent.
\* Gives the value returned and the TermListGroup afterwards.
TermListGroup_get_termfreq(t, tname) ==
    IF tname \in DOMAIN t.termfreq
    THEN [value |-> t.termfreq[tname], tlg |-> t]
    ELSE [value |-> 0, tlg |-> [t EXCEPT !.termfreq = MapPut(@, tname, 0)]]

NewTlg == [termfreq |-> [t \in {} |-> 0], docs_num |-> 0]

-----------------------------------------------------------------------------
(* Point::initialize *)

\* The loop of Point::initialize over the document's terms from i; s is
\* [point, tlg], size is tlg.get_doccount() read before the loop.
RECURSIVE initialize_loop(_, _, _, _)
initialize_loop(state, size, doc_, i) ==
    CHOOSE r \in
      {IF i > Len(Corpus[doc_]) THEN s
       ELSE LET term == Corpus[doc_][i].term
                wdf == IF Corpus[doc_][i].wdf < 1 THEN 1 ELSE Corpus[doc_][i].wdf
                tf == DAdd(DOne, DLog(D(wdf)))
                got == TermListGroup_get_termfreq(s.tlg, term)
                idf == DLog(DDiv(D(size), D(got.value)))
                wt == DMul(tf, idf)
            IN  initialize_loop(
                    [point |-> [s.point EXCEPT
                                   !.termlist = Append(@, Wdf(term, wdf)),
                                   !.values = MapPut(@, term, wt),
                                   !.magnitude = DAdd(@, DMul(wt, wt))],
                     tlg |-> got.tlg],
                    size, doc_, i + 1)
       : s \in {state}} : TRUE

Point_initialize(p, t, doc_) ==
    initialize_loop([point |-> [p EXCEPT !.doc = doc_], tlg |-> t],
                    TermListGroup_get_doccount(t), doc_, 1)

Point_get_document(p) == p.doc

-----------------------------------------------------------------------------
(* Cluster *)

\* Cluster::Cluster()
NewCluster == [centroid |-> NewCentroid, cluster_docs |-> <<>>]

Cluster_get_centroid(c) == c.centroid

Cluster_set_centroid(c, centroid_) == [c EXCEPT !.centroid = centroid_]

Cluster_size(c) == Len(c.cluster_docs)

\* cluster_docs[index] is defined only for 0 <= index < size().
InCluster(c, index) == index >= 0 /\ index < Len(c.cluster_docs)

\* Mutant: the point is put in front of the others instead of behind them.
Cluster_add_cluster_in_front(c, doc) ==
    [c EXCEPT !.cluster_docs = <<doc>> \o @]

Cluster_add_cluster(c, doc) == [c EXCEPT !.cluster_docs = Append(@, doc)]

\* Mutant: clear() that resets the centroid along with the points.
Cluster_clear_and_centroid(c) ==
    [c EXCEPT !.cluster_docs = <<>>, !.centroid = NewCentroid]

Cluster_clear(c) == [c EXCEPT !.cluster_docs = <<>>]

\* The inner loop of Cluster::recalculate: the terms of point temp from i.
RECURSIVE recalculate_terms(_, _, _)
recalculate_terms(centroid, temp, i) ==
    CHOOSE r \in
      {IF i > Len(temp.termlist) THEN c
       ELSE LET t == temp.termlist[i].term
            IN  recalculate_terms(
                    PointType_add_value(c, t, PointType_get_value(temp, t)),
                    temp, i + 1)
       : c \in {centroid}} : TRUE

\* The outer loop of Cluster::recalculate: the points from position j.
RECURSIVE recalculate_points(_, _, _)
recalculate_points(centroid, cluster_docs, j) ==
    CHOOSE r \in
      {IF j > Len(cluster_docs) THEN c
       ELSE recalculate_points(recalculate_terms(c, cluster_docs[j], 1),
                               cluster_docs, j + 1)
       : c \in {centroid}} : TRUE

Cluster_recalculate(c) ==
    [c EXCEPT !.centroid =
        CHOOSE r \in
          {Centroid_recalc_magnitude(divided)
           : divided \in
               {Centroid_divide(
                    recalculate_points(Centroid_clear(c.centroid), c.cluster_docs, 1),
                    Cluster_size(c))}} : TRUE]

\* Cluster::get_documents: the documents of the points, in order.
Cluster_get_documents(c) ==
    [i \in 1..Len(c.cluster_docs) |-> Point_get_document(c.cluster_docs[i])]

-----------------------------------------------------------------------------
(* Idle values of the variables a specification does not use *)

NoRet == [op |-> "none"]
NoDocs == [maxitems |-> 0, index |-> 0]
NoHist == [calls |-> 0, reads |-> <<>>, limit |-> 0]
NoKm == [state |-> "none"]
NoIter == [state |-> "none"]

-----------------------------------------------------------------------------
(* SpecPoint: a PointType object driven through its mutators *)

Values == {D(-1), D(1), D(2)}

InitPoint ==
    /\ pt \in {NewPoint, NewCentroid}
    /\ cluster = NewCluster
    /\ clusters = <<>>
    /\ ret = NoRet
    /\ mset = <<>>
    /\ docs = NoDocs
    /\ tlg = NewTlg
    /\ pc = "idle"
    /\ hist = NoHist
    /\ km = NoKm
    /\ ncalls = 0
    /\ titer = NoIter

add_value(term, value) ==
    /\ ncalls < MaxCalls
    /\ pt' = PointType_add_value(pt, term, value)
    /\ ret' = [op |-> "add_value", term |-> term]
    /\ ncalls' = ncalls + 1
    /\ UNCHANGED <<cluster, clusters, mset, docs, tlg, pc, hist, km, titer>>

set_value(term, value) ==
    /\ ncalls < MaxCalls
    /\ pt' = PointType_set_value(pt, term, value)
    /\ ret' = [op |-> "set_value", term |-> term]
    /\ ncalls' = ncalls + 1
    /\ UNCHANGED <<cluster, clusters, mset, docs, tlg, pc, hist, km, titer>>

NextPoint ==
    \/ \E term \in Terms, value \in Values : add_value(term, value)
    \/ \E term \in Terms, value \in Values : set_value(term, value)

SpecPoint == InitPoint /\ [][NextPoint]_vars

\* C1: after any sequence of set_value and add_value calls on a fresh
\* PointType, get_magnitude() equals the sum of get_value(t)^2 over the
\* stored terms.
MagnitudeIsSumOfSquares ==
    PointType_get_magnitude(pt) = SumSq(pt.values)

-----------------------------------------------------------------------------
(* SpecCluster: a stand-alone Cluster object *)

\* Points as KMeans and RoundRobin build them: Point::initialize against the
\* TermListGroup of the MSet of all documents.
FullMSet == [i \in DocIds |-> i]

FullTlg == TermListGroup_add_documents(NewTlg, MSetDocumentSource_mset(FullMSet),
                                       FullMSet)

SamplePoint(doc_) == Point_initialize(NewPoint, FullTlg, doc_).point

SamplePoints == {SamplePoint(doc_) : doc_ \in DocIds}

SampleCentroids ==
    {NewCentroid} \cup {Centroid_set_to_point(NewCentroid, x) : x \in SamplePoints}

InitCluster ==
    /\ cluster = NewCluster
    /\ pt = NewCentroid
    /\ clusters = <<>>
    /\ ret = NoRet
    /\ mset = <<>>
    /\ docs = NoDocs
    /\ tlg = NewTlg
    /\ pc = "idle"
    /\ hist = NoHist
    /\ km = NoKm
    /\ ncalls = 0
    /\ titer = NoIter

set_centroid(centroid_) ==
    /\ cluster' = Cluster_set_centroid(cluster, centroid_)
    /\ ret' = [op |-> "set_centroid"]
    /\ UNCHANGED <<pt, clusters, mset, docs, tlg, pc, hist, km, ncalls, titer>>

add_point(doc) ==
    /\ Cluster_size(cluster) < MaxPoints
    /\ cluster' = Cluster_add_cluster(cluster, doc)
    /\ ret' = [op |-> "add_point"]
    /\ UNCHANGED <<pt, clusters, mset, docs, tlg, pc, hist, km, ncalls, titer>>

clear ==
    /\ cluster' = Cluster_clear(cluster)
    /\ ret' = [op |-> "clear"]
    /\ UNCHANGED <<pt, clusters, mset, docs, tlg, pc, hist, km, ncalls, titer>>

recalculate ==
    /\ cluster' = Cluster_recalculate(cluster)
    /\ ret' = [op |-> "recalculate", before |-> cluster.centroid]
    /\ UNCHANGED <<pt, clusters, mset, docs, tlg, pc, hist, km, ncalls, titer>>

\* The outcomes of indexing a vector outside its storage (undefined
\* behaviour): the process dies, or some Point-shaped garbage is read.
OutsideStorage == [kind : {"crash"}] \cup [kind : {"garbage"}, value : SamplePoints]

get_index(index) ==
    /\ IF InCluster(cluster, index)
       THEN ret' = [op |-> "get_index", index |-> index, kind |-> "value",
                    value |-> cluster.cluster_docs[index + 1]]
       ELSE \E u \in OutsideStorage :
                ret' = [op |-> "get_index", index |-> index] @@ u
    /\ UNCHANGED <<pt, cluster, clusters, mset, docs, tlg, pc, hist, km, ncalls, titer>>

get_documents ==
    /\ ret' = [op |-> "get_documents", value |-> Cluster_get_documents(cluster)]
    /\ UNCHANGED <<pt, cluster, clusters, mset, docs, tlg, pc, hist, km, ncalls, titer>>

NextCluster ==
    \/ \E centroid_ \in SampleCentroids : set_centroid(centroid_)
    \/ \E doc \in SamplePoints : add_point(doc)
    \/ clear
    \/ recalculate
    \/ \E index \in 0..MaxPoints : get_index(index)
    \/ get_documents

SpecCluster == InitCluster /\ [][NextCluster]_vars

\* Sum of get_value(t) over the points of a cluster, from position j.
RECURSIVE SumOverPoints(_, _, _)
SumOverPoints(cluster_docs, t, j) ==
    IF j > Len(cluster_docs) THEN Zero
    ELSE DAdd(PointType_get_value(cluster_docs[j], t),
              SumOverPoints(cluster_docs, t, j + 1))

\* C2: after Cluster::recalculate() on a cluster with size() > 0, whatever
\* the centroid held before, every term of the centroid has the mean of the
\* points' weights, the centroid holds no term that no point holds, and the
\* magnitude is the sum of the squared weights.
CentroidIsMean ==
    (ret.op = "recalculate" /\ Cluster_size(cluster) > 0) =>
        LET c == Cluster_get_centroid(cluster)
        IN  /\ \A t \in DOMAIN c.values :
                 /\ PointType_get_value(c, t) =
                        DDiv(SumOverPoints(cluster.cluster_docs, t, 1),
                             D(Cluster_size(cluster)))
                 /\ \E j \in 1..Len(cluster.cluster_docs) :
                        PointType_contains(cluster.cluster_docs[j], t)
            /\ \A i \in 1..Len(c.termlist) :
                 \E j \in 1..Len(cluster.cluster_docs) :
                    PointType_contains(cluster.cluster_docs[j], c.termlist[i].term)
            /\ PointType_get_magnitude(c) = SumSq(c.values)

\* C2 witness: a centroid that held a term no point of the cluster holds has
\* been recalculated over two different points.
CentroidIsMeanWitness ==
    /\ ret.op = "recalculate"
    /\ Cluster_size(cluster) = 2
    /\ cluster.cluster_docs[1] # cluster.cluster_docs[2]
    /\ \E t \in DOMAIN ret.before.values :
          /\ \A j \in 1..2 : ~PointType_contains(cluster.cluster_docs[j], t)
          /\ ~PointType_contains(cluster.centroid, t)
    /\ cluster.centroid.values # EmptyMap

-----------------------------------------------------------------------------
(* ClusterSet *)

ClusterSet_size(cs) == Len(cs)

\* clusters[i] is defined only below clusters.size().
InSet(cs, i) == i < Len(cs)

RangeError == [kind |-> "RangeError"]

ClusterSet_cluster_size(cs, cid) ==
    IF cid >= Len(cs) THEN RangeError
    ELSE [kind |-> "value", value |-> Cluster_size(cs[cid + 1])]

\* Mutant: the range check off by one; clusters[size()] is then read.
ClusterSet_get_cluster_off_by_one(cs, cid) ==
    IF cid > Len(cs) THEN RangeError
    ELSE IF cid = Len(cs) THEN [kind |-> "garbage"]
    ELSE [kind |-> "value", value |-> cs[cid + 1]]

ClusterSet_get_cluster(cs, cid) ==
    IF cid >= Len(cs) THEN RangeError
    ELSE [kind |-> "value", value |-> cs[cid + 1]]

ClusterSet_add_cluster(cs, c) == Append(cs, c)

\* clusters[i].add_cluster(x), for i inside the vector.
ClusterSet_add_to_cluster(cs, x, i) ==
    [cs EXCEPT ![i + 1] = Cluster_add_cluster(@, x)]

\* Mutant: clear_clusters() that leaves the points where they are.
ClusterSet_clear_clusters_nothing(cs) == cs

ClusterSet_clear_clusters(cs) == [i \in 1..Len(cs) |-> Cluster_clear(cs[i])]

ClusterSet_recalculate_centroids(cs) ==
    [i \in 1..Len(cs) |-> Cluster_recalculate(cs[i])]

-----------------------------------------------------------------------------
(* SpecClusterSet: a ClusterSet object driven through its interface *)

\* The clusters and points a caller hands in.
InputClusters ==
    {NewCluster,
     Cluster_set_centroid(NewCluster,
                          Centroid_set_to_point(NewCentroid, SamplePoint(2)))}

InputPoints == {SamplePoint(1), SamplePoint(3)}

InitClusterSet ==
    /\ clusters = <<>>
    /\ cluster = NewCluster
    /\ pt = NewCentroid
    /\ ret = NoRet
    /\ mset = <<>>
    /\ docs = NoDocs
    /\ tlg = NewTlg
    /\ pc = "idle"
    /\ hist = NoHist
    /\ km = NoKm
    /\ ncalls = 0
    /\ titer = NoIter

\* What every call records: the ClusterSet as it was when the call was made.
Call(op) == [op |-> op, before |-> clusters]

add_cluster(c) ==
    /\ ncalls < MaxCalls
    /\ ClusterSet_size(clusters) < MaxClusters
    /\ clusters' = ClusterSet_add_cluster(clusters, c)
    /\ ret' = Call("add_cluster")
    /\ ncalls' = ncalls + 1
    /\ UNCHANGED <<pt, cluster, mset, docs, tlg, pc, hist, km, titer>>

\* Outside the vector the write is undefined behaviour: the process dies, or
\* memory that is not the ClusterSet's is overwritten.
add_to_cluster(x, i) ==
    /\ ncalls < MaxCalls
    /\ ncalls' = ncalls + 1
    /\ IF InSet(clusters, i)
       THEN /\ Cluster_size(clusters[i + 1]) < MaxPoints
            /\ clusters' = ClusterSet_add_to_cluster(clusters, x, i)
            /\ ret' = Call("add_to_cluster") @@ [i |-> i, kind |-> "done"]
       ELSE /\ clusters' = clusters
            /\ \E k \in {"crash", "corrupt"} :
                  ret' = Call("add_to_cluster") @@ [i |-> i, kind |-> k]
    /\ UNCHANGED <<pt, cluster, mset, docs, tlg, pc, hist, km, titer>>

clear_clusters ==
    /\ ncalls < MaxCalls
    /\ clusters' = ClusterSet_clear_clusters(clusters)
    /\ ret' = Call("clear_clusters")
    /\ ncalls' = ncalls + 1
    /\ UNCHANGED <<pt, cluster, mset, docs, tlg, pc, hist, km, titer>>

recalculate_centroids ==
    /\ ncalls < MaxCalls
    /\ clusters' = ClusterSet_recalculate_centroids(clusters)
    /\ ret' = Call("recalculate_centroids")
    /\ ncalls' = ncalls + 1
    /\ UNCHANGED <<pt, cluster, mset, docs, tlg, pc, hist, km, titer>>

size ==
    /\ ret' = Call("size") @@ [kind |-> "value", value |-> ClusterSet_size(clusters)]
    /\ UNCHANGED <<pt, cluster, clusters, mset, docs, tlg, pc, hist, km, ncalls, titer>>

cluster_size(cid) ==
    /\ ret' = Call("cluster_size") @@ [cid |-> cid]
                  @@ ClusterSet_cluster_size(clusters, cid)
    /\ UNCHANGED <<pt, cluster, clusters, mset, docs, tlg, pc, hist, km, ncalls, titer>>

get_cluster(cid) ==
    /\ ret' = Call("get_cluster") @@ [cid |-> cid]
                  @@ ClusterSet_get_cluster(clusters, cid)
    /\ UNCHANGED <<pt, cluster, clusters, mset, docs, tlg, pc, hist, km, ncalls, titer>>

\* ClusterSet::operator[]: no range check; outside the vector the read is
\* undefined behaviour.
subscript(i) ==
    /\ IF InSet(clusters, i)
       THEN ret' = Call("subscript") @@ [i |-> i, kind |-> "value",
                                         value |-> clusters[i + 1]]
       ELSE \E k \in {"crash", "garbage"} :
                ret' = Call("subscript") @@ [i |-> i, kind |-> k]
    /\ UNCHANGED <<pt, cluster, clusters, mset, docs, tlg, pc, hist, km, ncalls, titer>>

\* cset[i].get_index(index) on a cluster of the set.
subscript_get_index(i, index) ==
    /\ InSet(clusters, i)
    /\ IF InCluster(clusters[i + 1], index)
       THEN ret' = Call("get_index") @@
                     [i |-> i, index |-> index, kind |-> "value",
                      value |-> clusters[i + 1].cluster_docs[index + 1]]
       ELSE \E k \in {"crash", "garbage"} :
                ret' = Call("get_index") @@ [i |-> i, index |-> index, kind |-> k]
    /\ UNCHANGED <<pt, cluster, clusters, mset, docs, tlg, pc, hist, km, ncalls, titer>>

NextClusterSet ==
    \/ \E c \in InputClusters : add_cluster(c)
    \/ \E x \in InputPoints, i \in 0..MaxClusters : add_to_cluster(x, i)
    \/ clear_clusters
    \/ recalculate_centroids
    \/ size
    \/ \E cid \in 0..MaxClusters : cluster_size(cid)
    \/ \E cid \in 0..MaxClusters : get_cluster(cid)
    \/ \E i \in 0..MaxClusters : subscript(i)
    \/ \E i \in 0..MaxClusters, index \in 0..MaxPoints : subscript_get_index(i, index)

SpecClusterSet == InitClusterSet /\ [][NextClusterSet]_vars

\* C9: get_cluster(i) fails with an out-of-range error when i >= size() and
\* returns the cluster at position i when i < size(); either way the
\* ClusterSet is as it was before the call.
GetClusterChecksRange ==
    ret.op = "get_cluster" =>
        /\ ret.cid >= ClusterSet_size(ret.before) => ret.kind = "RangeError"
        /\ ret.cid < ClusterSet_size(ret.before) =>
              ret.kind = "value" /\ ret.value = ret.before[ret.cid + 1]
        /\ clusters = ret.before

\* C9 witness: both outcomes on a ClusterSet that holds a point: the last call
\* was refused at i = size(), or gave back a cluster with a point in it.
GetClusterWitness ==
    /\ ret.op = "get_cluster"
    /\ ClusterSet_size(clusters) > 0
    /\ \/ ret.cid = ClusterSet_size(clusters) /\ ret.kind = "RangeError"
                                              /\ Cluster_size(clusters[1]) > 0
       \/ ret.kind = "value" /\ Cluster_size(ret.value) > 0

\* C10: every operation that addresses a cluster or a point by an index
\* beyond the current size signals OutOfRange.
IndexBeyondSizeSignalsOutOfRange ==
    /\ (ret.op \in {"subscript", "add_to_cluster"}
            /\ ret.i >= ClusterSet_size(ret.before)) => ret.kind = "RangeError"
    /\ (ret.op = "get_index"
            /\ ret.index >= Cluster_size(ret.before[ret.i + 1]))
         => ret.kind = "RangeError"

\* C12: clear_clusters() leaves every cluster with size() = 0 and leaves the
\* number of clusters, their order and every cluster's centroid (weights,
\* termlist and magnitude) as they were.
ClearClustersKeepsCentroids ==
    ret.op = "clear_clusters" =>
        /\ ClusterSet_size(clusters) = ClusterSet_size(ret.before)
        /\ \A i \in 1..Len(clusters) :
              /\ Cluster_size(clusters[i]) = 0
              /\ Cluster_get_centroid(clusters[i]) =
                     Cluster_get_centroid(ret.before[i])

\* C12 witness: clear_clusters() was called on two clusters with different
\* centroids, one of which held a point and had a centroid of its own.
ClearClustersWitness ==
    /\ ret.op = "clear_clusters"
    /\ ClusterSet_size(ret.before) = 2
    /\ Cluster_get_centroid(ret.before[1]) # Cluster_get_centroid(ret.before[2])
    /\ \E i \in 1..2 : /\ Cluster_size(ret.before[i]) > 0
                       /\ Cluster_get_centroid(ret.before[i]).values # EmptyMap

\* C13: after recalculate_centroids() every cluster with size() = 0 has the
\* centroid weights and magnitude it had before; only non-empty clusters get
\* a new centroid.
EmptyClusterKeepsCentroid ==
    ret.op = "recalculate_centroids" =>
        \A i \in 1..Len(clusters) :
            Cluster_size(clusters[i]) = 0 =>
                /\ Cluster_get_centroid(clusters[i]).values =
                       Cluster_get_centroid(ret.before[i]).values
                /\ PointType_get_magnitude(Cluster_get_centroid(clusters[i])) =
                       PointType_get_magnitude(Cluster_get_centroid(ret.before[i]))

-----------------------------------------------------------------------------
(* SpecTLG: a TermListGroup built from an MSetDocumentSource, then queried *)

\* An MSet ranks documents, each at most once.
RECURSIVE MSetsOfLen(_)
MSetsOfLen(n) ==
    IF n = 0 THEN {<<>>}
    ELSE {Append(m, d) : m \in MSetsOfLen(n - 1), d \in DocIds} \cap
         {m \in [1..n -> DocIds] : \A i, j \in 1..n : i # j => m[i] # m[j]}

MSets == UNION {MSetsOfLen(n) : n \in 0..MaxMSet}

Min(a, b) == IF a < b THEN a ELSE b

InitTLG ==
    /\ mset \in MSets
    /\ docs = NoDocs
    /\ tlg = NewTlg
    /\ pc = "start"
    /\ hist = NoHist
    /\ ret = NoRet
    /\ pt = NewCentroid
    /\ cluster = NewCluster
    /\ clusters = <<>>
    /\ km = NoKm
    /\ ncalls = 0
    /\ titer = NoIter

\* MSetDocumentSource docs(mset); hist.limit is the number of documents the
\* caller asked for.
new_source ==
    /\ pc = "start"
    /\ docs' = MSetDocumentSource_mset(mset)
    /\ hist' = [calls |-> 0, reads |-> <<>>, limit |-> Len(mset)]
    /\ pc' = "add_documents"
    /\ UNCHANGED <<pt, cluster, clusters, ret, mset, tlg, km, ncalls, titer>>

\* MSetDocumentSource docs(mset, maxitems_)
new_source_maxitems(maxitems_) ==
    /\ pc = "start"
    /\ docs' = MSetDocumentSource_maxitems(mset, maxitems_)
    /\ hist' = [calls |-> 0, reads |-> <<>>, limit |-> Min(Len(mset), maxitems_)]
    /\ pc' = "add_documents"
    /\ UNCHANGED <<pt, cluster, clusters, ret, mset, tlg, km, ncalls, titer>>

\* One turn of the loop of add_documents: add_document(docs.next_document()).
\* mset[index] outside the MSet is undefined behaviour: the process dies or
\* some document is read.
add_documents_next ==
    /\ pc = "add_documents"
    /\ ~MSetDocumentSource_at_end(docs)
    /\ hist' = [hist EXCEPT
                  !.calls = @ + 1,
                  !.reads = Append(@, [index |-> docs.index,
                                       at_end |-> MSetDocumentSource_at_end(docs)])]
    /\ docs' = [docs EXCEPT !.index = @ + 1]
    /\ IF InMSet(mset, docs.index)
       THEN /\ tlg' = TermListGroup_add_document(tlg, mset[docs.index + 1])
            /\ pc' = pc
       ELSE \/ tlg' = tlg /\ pc' = "crashed"
            \/ \E g \in DocIds : /\ tlg' = TermListGroup_add_document(tlg, g)
                                 /\ pc' = pc
    /\ UNCHANGED <<pt, cluster, clusters, ret, mset, km, ncalls, titer>>

\* The end of add_documents: docs_num = docs.size().
add_documents_return ==
    /\ pc = "add_documents"
    /\ MSetDocumentSource_at_end(docs)
    /\ tlg' = [tlg EXCEPT !.docs_num = MSetDocumentSource_size(mset)]
    /\ pc' = "built"
    /\ ret' = [op |-> "add_documents", before |-> tlg]
    /\ UNCHANGED <<pt, cluster, clusters, mset, docs, hist, km, ncalls, titer>>

get_termfreq(tname) ==
    /\ pc = "built"
    /\ LET got == TermListGroup_get_termfreq(tlg, tname)
       IN  /\ tlg' = got.tlg
           /\ ret' = [op |-> "get_termfreq", tname |-> tname,
                      value |-> got.value, before |-> tlg]
    /\ UNCHANGED <<pt, cluster, clusters, mset, docs, pc, hist, km, ncalls, titer>>

get_doccount ==
    /\ pc = "built"
    /\ ret' = [op |-> "get_doccount", value |-> TermListGroup_get_doccount(tlg),
               before |-> tlg]
    /\ UNCHANGED <<pt, cluster, clusters, mset, docs, tlg, pc, hist, km, ncalls, titer>>

NextTLG ==
    \/ new_source
    \/ \E maxitems_ \in 0..(MaxMSet + 1) : new_source_maxitems(maxitems_)
    \/ add_documents_next
    \/ add_documents_return
    \/ \E tname \in Terms : get_termfreq(tname)
    \/ get_doccount

SpecTLG == InitTLG /\ [][NextTLG]_vars

\* C6: after a TermListGroup is built, get_doccount() equals the number of
\* documents scanned (the number of next_document() calls made).
DoccountIsDocumentsScanned ==
    pc = "built" => TermListGroup_get_doccount(tlg) = hist.calls

\* C7: once built, every term in the term-frequency mapping has
\* 1 <= termfreq(t) <= doccount, and queries do not change the mapping.
TermfreqWithinBounds ==
    pc = "built" =>
        /\ \A t \in DOMAIN tlg.termfreq :
              1 <= tlg.termfreq[t] /\ tlg.termfreq[t] <= tlg.docs_num
        /\ ret.op \in {"get_termfreq", "get_doccount"} =>
              tlg.termfreq = ret.before.termfreq

\* C8: building calls next_document() exactly min(mset.size(), maxitems)
\* times, only while at_end() is false, never reads an MSet position
\* >= mset.size(), and at_end() is true afterwards.
NextCalledMinTimes ==
    /\ \A r \in 1..Len(hist.reads) :
          ~hist.reads[r].at_end /\ hist.reads[r].index < Len(mset)
    /\ pc # "crashed"
    /\ pc = "built" => /\ hist.calls = hist.limit
                       /\ MSetDocumentSource_at_end(docs)

\* C8 witness: a build that was asked for fewer documents than the MSet has
\* has finished after reading at least two of them.
NextCalledMinTimesWitness ==
    /\ pc = "built"
    /\ hist.calls >= 2
    /\ ret.op = "add_documents"
    /\ docs.maxitems < Len(mset)

-----------------------------------------------------------------------------
(* The points of an MSet, as both clusterers build them *)

\* TermListGroup tlg; tlg.add_documents(MSetDocumentSource(mset))
TlgOfMSet(mset_) ==
    TermListGroup_add_documents(NewTlg, MSetDocumentSource_mset(mset_), mset_)

\* One Point per document of the MSet, in MSet order, from position i on;
\* the TermListGroup is handed from one Point::initialize to the next.
RECURSIVE PointsFrom(_, _, _)
PointsFrom(t, mset_, i) ==
    IF i > Len(mset_) THEN <<>>
    ELSE CHOOSE r \in
           {<<made.point>> \o PointsFrom(made.tlg, mset_, i + 1)
            : made \in {Point_initialize(NewPoint, t, mset_[i])}} : TRUE

PointsOfMSet(mset_) == PointsFrom(TlgOfMSet(mset_), mset_, 1)

InvalidArgument == [kind |-> "InvalidArgument"]

-----------------------------------------------------------------------------
(* SpecRoundRobin: RoundRobin(k).cluster(mset) *)

InitRoundRobin ==
    /\ mset \in MSets \ {<<>>}
    /\ \E k \in 1..MaxK :
          km = [state |-> "Start", num_of_clusters |-> k, points |-> <<>>, i |-> 0]
    /\ clusters = <<>>
    /\ ret = NoRet
    /\ pt = NewCentroid
    /\ cluster = NewCluster
    /\ docs = NoDocs
    /\ tlg = NewTlg
    /\ pc = "idle"
    /\ hist = NoHist
    /\ ncalls = 0
    /\ titer = NoIter

\* Steps 1 and 2: k empty clusters in the output set, the TermListGroup of
\* the MSet and the points.
rr_start ==
    /\ km.state = "Start"
    /\ clusters' = [c \in 1..km.num_of_clusters |-> NewCluster]
    /\ tlg' = TlgOfMSet(mset)
    /\ km' = [km EXCEPT !.state = "Distribute", !.points = PointsOfMSet(mset)]
    /\ UNCHANGED <<pt, cluster, ret, mset, docs, pc, hist, ncalls, titer>>

\* Step 3, one document: the point of MSet position i goes to cluster i mod k.
rr_add ==
    /\ km.state = "Distribute"
    /\ km.i < Len(mset)
    /\ clusters' = ClusterSet_add_to_cluster(clusters, km.points[km.i + 1],
                                             km.i % km.num_of_clusters)
    /\ km' = [km EXCEPT !.i = @ + 1]
    /\ UNCHANGED <<pt, cluster, ret, mset, docs, tlg, pc, hist, ncalls, titer>>

rr_return ==
    /\ km.state = "Distribute"
    /\ km.i >= Len(mset)
    /\ km' = [km EXCEPT !.state = "Done"]
    /\ ret' = [op |-> "cluster", kind |-> "value", value |-> clusters]
    /\ UNCHANGED <<pt, cluster, clusters, mset, docs, tlg, pc, hist, ncalls, titer>>

NextRoundRobin == rr_start \/ rr_add \/ rr_return

SpecRoundRobin == InitRoundRobin /\ [][NextRoundRobin]_vars

\* The MSet positions i (from 0) with i mod k = c.
PositionsOf(c, k, n) == {i \in 0..(n - 1) : i % k = c}

\* The documents of those positions, in increasing position order.
DocumentsOf(c, k, mset_) ==
    [j \in 1..Cardinality(PositionsOf(c, k, Len(mset_))) |-> mset_[c + (j - 1) * k + 1]]

\* C4: RoundRobin(k).cluster(mset) with k >= 1 returns k clusters; the
\* document at MSet index i is in cluster i mod k and in no other, and each
\* cluster lists its documents in increasing MSet index order.
RoundRobinPlacement ==
    km.state = "Done" =>
        /\ ret.kind = "value"
        /\ ClusterSet_size(ret.value) = km.num_of_clusters
        /\ \A c \in 0..(km.num_of_clusters - 1) :
              Cluster_get_documents(ret.value[c + 1]) =
                  DocumentsOf(c, km.num_of_clusters, mset)

\* C4 witness: three documents have been dealt to two clusters.
RoundRobinPlacementWitness ==
    /\ km.state = "Done"
    /\ Len(mset) = 3
    /\ km.num_of_clusters = 2
    /\ Cluster_size(ret.value[1]) = 2

-----------------------------------------------------------------------------
(* CosineDistance *)

\* The dot product: the terms of a's termlist from position i, each looked
\* up in b.
RECURSIVE DotFrom(_, _, _)
DotFrom(a, b, i) ==
    IF i > Len(a.termlist) THEN Zero
    ELSE LET t == a.termlist[i].term
         IN  DAdd(DMul(PointType_get_value(a, t), PointType_get_value(b, t)),
                  DotFrom(a, b, i + 1))

Dot(a, b) ==
    IF PointType_termlist_size(a) <= PointType_termlist_size(b)
    THEN DotFrom(a, b, 1) ELSE DotFrom(b, a, 1)

\* cos = (a . b) / (sqrt(|a|^2) * sqrt(|b|^2)), and 0 when a magnitude is 0.
\* The value kept is cos * |cos|, which orders and ties exactly as cos does
\* and needs no square root.
CosineDistance_similarity(a, b) ==
    IF PointType_get_magnitude(a) = Zero \/ PointType_get_magnitude(b) = Zero
    THEN Zero
    ELSE CHOOSE r \in
           {DDiv(DMul(dot, <<Abs(dot[1]), dot[2]>>),
                 DMul(PointType_get_magnitude(a), PointType_get_magnitude(b)))
            : dot \in {Dot(a, b)}} : TRUE

\* x < y for finite doubles of any size: the integer parts decide, else the
\* reciprocals of the fractional parts do (no product is formed).
RECURSIVE FracLess(_, _, _, _)
FracLess(a, b, c, d) ==
    CHOOSE r \in
      {IF q1 # q2 THEN q1 < q2
       ELSE IF r2 = 0 THEN FALSE
       ELSE IF r1 = 0 THEN TRUE
       ELSE FracLess(d, r2, b, r1)
       : q1 \in {a \div b}, q2 \in {c \div d}, r1 \in {a % b}, r2 \in {c % d}}
      : TRUE

SimLess(a, b) ==
    CHOOSE r \in {FracLess(x[1], x[2], y[1], y[2]) : x \in {a}, y \in {b}} : TRUE

-----------------------------------------------------------------------------
(* SpecKMeans: KMeans(k, max_iters).cluster(mset) *)

\* The iteration cap when max_iters is 0.
DefaultIterCap == 100

IterCap(max_iters) == IF max_iters = 0 THEN DefaultIterCap ELSE max_iters

\* The cluster of maximum similarity to point x among clusters c..k-1, given
\* the best so far; a later cluster wins only when strictly more similar.
RECURSIVE Nearest(_, _, _, _)
Nearest(cs, x, c, best) ==
    CHOOSE r \in
      {IF c >= Len(cs) THEN b
       ELSE Nearest(cs, x, c + 1,
                    IF SimLess(CosineDistance_similarity(x, cs[b + 1].centroid),
                               CosineDistance_similarity(x, cs[c + 1].centroid))
                    THEN c ELSE b)
       : b \in {best}} : TRUE

\* The Assign step from point i on: s is [clusters, assign].
RECURSIVE AssignFrom(_, _, _)
AssignFrom(state, points, i) ==
    CHOOSE r \in
      {IF i > Len(points) THEN s
       ELSE CHOOSE q \in
              {AssignFrom(
                   [clusters |-> ClusterSet_add_to_cluster(s.clusters, points[i], c),
                    assign |-> Append(s.assign, c)],
                   points, i + 1)
               : c \in {Nearest(s.clusters, points[i], 1, 0)}} : TRUE
       : s \in {state}} : TRUE

\* Mutant: Update that goes back to Assign whenever the assignment changed.
AfterUpdate_no_cap(changed, iters, cap) ==
    IF changed THEN "Assign" ELSE "Done"

\* Update: Assign if changed and iters < cap; else Done.
AfterUpdate(changed, iters, cap) ==
    IF changed /\ iters < cap THEN "Assign" ELSE "Done"

InitKMeans ==
    /\ mset \in MSets
    /\ \E k \in 0..MaxK, max_iters \in 0..MaxIters :
          km = [state |-> "Init", k |-> k, max_iters |-> max_iters, iters |-> 0,
                docs |-> <<>>, assign |-> <<>>, prev |-> <<>>]
    /\ clusters = <<>>
    /\ ret = NoRet
    /\ pt = NewCentroid
    /\ cluster = NewCluster
    /\ docs = NoDocs
    /\ tlg = NewTlg
    /\ pc = "idle"
    /\ hist = NoHist
    /\ ncalls = 0
    /\ titer = NoIter

ValidArguments == km.k >= 1 /\ Len(mset) >= 1 /\ km.k <= Len(mset)

\* k == 0, an empty MSet or k > |mset|: invalid-argument error.
km_invalid ==
    /\ km.state = "Init"
    /\ ~ValidArguments
    /\ km' = [km EXCEPT !.state = "Error"]
    /\ ret' = [op |-> "cluster"] @@ InvalidArgument
    /\ UNCHANGED <<pt, cluster, clusters, mset, docs, tlg, pc, hist, ncalls, titer>>

\* Init: build the TermListGroup over the MSet and one Point per document.
km_init ==
    /\ km.state = "Init"
    /\ ValidArguments
    /\ tlg' = TlgOfMSet(mset)
    /\ km' = [km EXCEPT !.state = "Seed", !.docs = PointsOfMSet(mset)]
    /\ UNCHANGED <<pt, cluster, clusters, ret, mset, docs, pc, hist, ncalls, titer>>

\* Seed: the first k points are the initial centroids, one cluster each.
km_seed ==
    /\ km.state = "Seed"
    /\ clusters' = [c \in 1..km.k |->
                      Cluster_set_centroid(NewCluster,
                          Centroid_set_to_point(NewCentroid, km.docs[c]))]
    /\ km' = [km EXCEPT !.state = "Assign"]
    /\ UNCHANGED <<pt, cluster, ret, mset, docs, tlg, pc, hist, ncalls, titer>>

\* Assign: discard the prior assignment, then put every point in the
\* cluster of the most similar centroid.
km_assign ==
    /\ km.state = "Assign"
    /\ \E s \in {AssignFrom([clusters |-> ClusterSet_clear_clusters(clusters),
                               assign |-> <<>>], km.docs, 1)} :
          /\ clusters' = s.clusters
          /\ km' = [km EXCEPT !.state = "Update", !.iters = @ + 1,
                              !.prev = km.assign, !.assign = s.assign]
    /\ UNCHANGED <<pt, cluster, ret, mset, docs, tlg, pc, hist, ncalls, titer>>

\* Update: recalculate the centroids and compare the assignment to the
\* previous one.
km_update ==
    /\ km.state = "Update"
    /\ clusters' = ClusterSet_recalculate_centroids(clusters)
    /\ LET next == AfterUpdate(km.assign # km.prev, km.iters, IterCap(km.max_iters))
       IN  /\ km' = [km EXCEPT !.state = next]
           /\ ret' = IF next = "Done"
                     THEN [op |-> "cluster", kind |-> "value", value |-> clusters']
                     ELSE ret
    /\ UNCHANGED <<pt, cluster, mset, docs, tlg, pc, hist, ncalls, titer>>

NextKMeans == km_invalid \/ km_init \/ km_seed \/ km_assign \/ km_update

\* cluster() runs to completion: the program is single-threaded and
\* synchronous, so a step that can be taken is taken.
SpecKMeans == InitKMeans /\ [][NextKMeans]_vars /\ WF_vars(NextKMeans)

RECURSIVE SumOfSizes(_, _)
SumOfSizes(cs, i) ==
    IF i > Len(cs) THEN 0 ELSE Cluster_size(cs[i]) + SumOfSizes(cs, i + 1)

\* The places <<cluster, position>> at which document d is found.
PlacesOf(cs, d) ==
    {pl \in (1..Len(cs)) \X (1..MaxMSet + 1) :
        /\ pl[2] <= Cluster_size(cs[pl[1]])
        /\ Point_get_document(cs[pl[1]].cluster_docs[pl[2]]) = d}

\* C3: at the end of every Assign step, and so when cluster() returns, there
\* are exactly k clusters, every document of the MSet is in exactly one of
\* them, and the cluster sizes add up to |mset|.
KMeansPartition ==
    km.state \in {"Update", "Done"} =>
        /\ ClusterSet_size(clusters) = km.k
        /\ \A i \in 1..Len(mset) : Cardinality(PlacesOf(clusters, mset[i])) = 1
        /\ SumOfSizes(clusters, 1) = Len(mset)
        /\ km.state = "Done" => ret.kind = "value" /\ ret.value = clusters

\* C3 witness: cluster() has returned after a second Assign step over three
\* documents, two of them in one cluster.
KMeansPartitionWitness ==
    /\ km.state = "Done"
    /\ km.iters >= 2
    /\ Len(mset) = 3
    /\ km.k = 2
    /\ \E c \in 1..2 : Cluster_size(clusters[c]) = 2

Done == km.state = "Done"

\* C5: the K-Means state machine always reaches Done; it never runs more
\* iterations than the cap, and from Update it goes to Done as soon as the
\* assignment is the previous one or the cap is reached, and back to Assign
\* otherwise.
KMeansTerminates ==
    /\ [](km.state = "Seed" => <>Done)
    /\ [](km.state \in {"Seed", "Assign", "Update", "Done"} =>
             km.iters <= IterCap(km.max_iters))
    /\ [][km.state = "Update" =>
             km'.state = (IF km.assign # km.prev /\ km.iters < IterCap(km.max_iters)
                          THEN "Assign" ELSE "Done")]_vars

\* C5 witnesses: a run stopped by the cap while the assignment was still
\* changing, after a second iteration.
KMeansTerminatesWitness ==
    /\ Done
    /\ km.iters = 2
    /\ km.iters = IterCap(km.max_iters)
    /\ km.assign # km.prev

-----------------------------------------------------------------------------
(* SpecPointType: a Point or a Centroid driven through all its mutators *)

\* The MSets a TermListGroup is built from before points are initialized:
\* the first n documents of the full ranking.
RankedMSets == {SubSeq(FullMSet, 1, n) : n \in 0..Min(MaxMSet, Len(FullMSet))}

IsPoint(p) == "doc" \in DOMAIN p

InitPointType ==
    /\ \/ /\ pt = NewPoint
          /\ mset \in RankedMSets
          /\ tlg = TlgOfMSet(mset)
       \/ /\ pt = NewCentroid
          /\ mset = <<>>
          /\ tlg = NewTlg
    /\ cluster = NewCluster
    /\ clusters = <<>>
    /\ ret = NoRet
    /\ docs = NoDocs
    /\ pc = "idle"
    /\ hist = NoHist
    /\ km = NoKm
    /\ ncalls = 0
    /\ titer = NoIter

\* point.initialize(tlg, doc_); the call records the term frequencies the
\* TermListGroup held when it was made.
initialize(doc_) ==
    /\ ncalls < MaxCalls
    /\ IsPoint(pt)
    /\ \E made \in {Point_initialize(pt, tlg, doc_)} :
          /\ pt' = made.point
          /\ tlg' = made.tlg
    /\ ret' = [op |-> "initialize", doc |-> doc_, termfreq |-> tlg.termfreq]
    /\ ncalls' = ncalls + 1
    /\ UNCHANGED <<cluster, clusters, mset, docs, pc, hist, km, titer>>

set_to_point(p) ==
    /\ ncalls < MaxCalls
    /\ ~IsPoint(pt)
    /\ pt' = Centroid_set_to_point(pt, p)
    /\ ret' = [op |-> "set_to_point"]
    /\ ncalls' = ncalls + 1
    /\ UNCHANGED <<cluster, clusters, mset, docs, tlg, pc, hist, km, titer>>

divide(num) ==
    /\ ncalls < MaxCalls
    /\ ~IsPoint(pt)
    /\ pt' = Centroid_divide(pt, num)
    /\ ret' = [op |-> "divide", num |-> num]
    /\ ncalls' = ncalls + 1
    /\ UNCHANGED <<cluster, clusters, mset, docs, tlg, pc, hist, km, titer>>

centroid_clear ==
    /\ ncalls < MaxCalls
    /\ ~IsPoint(pt)
    /\ pt' = Centroid_clear(pt)
    /\ ret' = [op |-> "clear", before |-> pt]
    /\ ncalls' = ncalls + 1
    /\ UNCHANGED <<cluster, clusters, mset, docs, tlg, pc, hist, km, titer>>

recalc_magnitude ==
    /\ ncalls < MaxCalls
    /\ ~IsPoint(pt)
    /\ pt' = Centroid_recalc_magnitude(pt)
    /\ ret' = [op |-> "recalc_magnitude"]
    /\ ncalls' = ncalls + 1
    /\ UNCHANGED <<cluster, clusters, mset, docs, tlg, pc, hist, km, titer>>

NextPointType ==
    \/ \E term \in Terms : add_value(term, D(1))
    \/ \E term \in Terms : set_value(term, D(2))
    \/ \E doc_ \in DocIds : initialize(doc_)
    \/ \E p \in SamplePoints : set_to_point(p)
    \/ \E num \in 1..MaxPoints : divide(num)
    \/ centroid_clear
    \/ recalc_magnitude

SpecPointType == InitPointType /\ [][NextPointType]_vars

\* C11: Point::initialize never divides by a zero document frequency: a
\* document term whose termfreq was 0 (or that the TermListGroup had never
\* seen) gets the weight 0, and no weight and no magnitude of the Point is
\* NaN or infinite.
InitializeSubstitutesZero ==
    ret.op = "initialize" =>
        /\ \A t \in DOMAIN pt.values : IsFinite(pt.values[t])
        /\ IsFinite(PointType_get_magnitude(pt))
        /\ \A i \in 1..Len(Corpus[ret.doc]) :
              LET t == Corpus[ret.doc][i].term
              IN  (t \notin DOMAIN ret.termfreq \/ ret.termfreq[t] = 0) =>
                      PointType_get_value(pt, t) = Zero

\* C14: in every reachable state of a PointType every key of the weight map
\* appears exactly once in the termlist, the termlist holds no term that is
\* not a key, and termlist_size() is the number of stored terms.
TermlistMatchesValues ==
    /\ \A t \in DOMAIN pt.values :
          Cardinality({i \in 1..Len(pt.termlist) : pt.termlist[i].term = t}) = 1
    /\ \A i \in 1..Len(pt.termlist) : PointType_contains(pt, pt.termlist[i].term)
    /\ PointType_termlist_size(pt) = Cardinality(DOMAIN pt.values)

\* C17: after Centroid::clear() the weight map is empty, the termlist is
\* empty and get_magnitude() returns 0.
ClearResetsCentroid ==
    ret.op = "clear" =>
        /\ pt.values = EmptyMap
        /\ PointType_termlist_size(pt) = 0
        /\ PointType_get_magnitude(pt) = Zero

-----------------------------------------------------------------------------
(* PointTermIterator *)

\* PointTermIterator(termlist): i and end are positions in the vector,
\* counted from 0; end is one past the last entry.
PointTermIterator(termlist) ==
    [i |-> 0, end |-> Len(termlist), size |-> Len(termlist), started |-> FALSE]

\* The entry i points at, for i inside the vector.
PointTermIterator_entry(it, termlist) == termlist[it.i + 1]

\* Mutant: next() that advances on the first call too.
PointTermIterator_next_always_advances(it) ==
    [it EXCEPT !.started = TRUE, !.i = @ + 1]

\* next(), for an iterator that is not at the end.
PointTermIterator_next(it) ==
    IF ~it.started THEN [it EXCEPT !.started = TRUE]
    ELSE [it EXCEPT !.i = @ + 1]

PointTermIterator_at_end(it) ==
    IF ~it.started THEN FALSE ELSE it.i = it.end

\* while (i->term != term) i++; the result has i = end when the loop has run
\* off the vector, where i->term is no longer the vector's.
RECURSIVE skip_to_loop(_, _, _)
skip_to_loop(it, termlist, term) ==
    IF it.i >= it.end THEN [it EXCEPT !.i = it.end]
    ELSE IF PointTermIterator_entry(it, termlist).term = term THEN it
    ELSE skip_to_loop([it EXCEPT !.i = @ + 1], termlist, term)

\* Mutant: skip_to() that looks behind the current entry only.
PointTermIterator_skip_to_past_current(it, termlist, term) ==
    skip_to_loop([it EXCEPT !.i = @ + 1], termlist, term)

PointTermIterator_skip_to(it, termlist, term) ==
    IF it.i < it.end /\ PointTermIterator_entry(it, termlist).term = term
    THEN it
    ELSE skip_to_loop(it, termlist, term)

-----------------------------------------------------------------------------
(* SpecIter: a caller's loop over the termlist of a PointType              *)
(*   it = termlist_begin(); for (it.next(); !it.at_end(); it.next()) *it   *)
(* with skip_to() calls in between                                         *)

\* The objects iterated: an empty one, points of one and two terms, and a
\* centroid set to two points in a row, whose termlist is a, b, b, c.
IterPoints ==
    {NewPoint} \cup SamplePoints \cup
    {Centroid_set_to_point(Centroid_set_to_point(NewCentroid, SamplePoint(1)),
                           SamplePoint(3))}

InitIter ==
    /\ pt \in IterPoints
    /\ titer = NoIter
    /\ pc = "idle"
    /\ hist = NoHist
    /\ ret = NoRet
    /\ cluster = NewCluster
    /\ clusters = <<>>
    /\ mset = <<>>
    /\ docs = NoDocs
    /\ tlg = NewTlg
    /\ km = NoKm
    /\ ncalls = 0

\* What using an iterator outside the termlist can do (undefined behaviour).
OutsideTermlist == {"crash", "garbage"}

termlist_begin ==
    /\ pc = "idle"
    /\ titer' = PointTermIterator(pt.termlist)
    /\ pc' = "next"
    /\ hist' = [seen |-> <<>>, nexts |-> 0, skipped |-> FALSE]
    /\ ret' = [op |-> "termlist_begin"]
    /\ UNCHANGED <<pt, cluster, clusters, mset, docs, tlg, km, ncalls>>

\* it.next(); at the end Assert(i != end) fails or ++i leaves the vector.
iter_next ==
    /\ pc \in {"next", "done"}
    /\ IF titer.started /\ titer.i = titer.end
       THEN /\ \E k \in OutsideTermlist : ret' = [op |-> "next", kind |-> k]
            /\ pc' = "undefined"
            /\ UNCHANGED <<titer, hist>>
       ELSE /\ titer' = PointTermIterator_next(titer)
            /\ hist' = [hist EXCEPT !.nexts = @ + 1]
            /\ ret' = [op |-> "next", kind |-> "done"]
            /\ pc' = "test"
    /\ UNCHANGED <<pt, cluster, clusters, mset, docs, tlg, km, ncalls>>

iter_at_end ==
    /\ pc = "test"
    /\ ret' = [op |-> "at_end", value |-> PointTermIterator_at_end(titer)]
    /\ pc' = IF PointTermIterator_at_end(titer) THEN "done" ELSE "body"
    /\ UNCHANGED <<pt, cluster, clusters, mset, docs, tlg, hist, km, ncalls, titer>>

\* The loop body: get_termname() and get_wdf() of the current entry.
iter_get ==
    /\ pc = "body"
    /\ IF titer.i < titer.end
       THEN /\ hist' = [hist EXCEPT
                           !.seen = Append(@, PointTermIterator_entry(titer, pt.termlist))]
            /\ ret' = [op |-> "get", kind |-> "value",
                       value |-> PointTermIterator_entry(titer, pt.termlist)]
            /\ pc' = "next"
       ELSE /\ \E k \in OutsideTermlist : ret' = [op |-> "get", kind |-> k]
            /\ pc' = "undefined"
            /\ hist' = hist
    /\ UNCHANGED <<pt, cluster, clusters, mset, docs, tlg, km, ncalls, titer>>

\* it.skip_to(term), before the loop body or after it.
iter_skip_to(term) ==
    /\ pc \in {"next", "body"}
    /\ \E r \in {PointTermIterator_skip_to(titer, pt.termlist, term)} :
          IF r.i < r.end
          THEN /\ titer' = r
               /\ ret' = [op |-> "skip_to", term |-> term, from |-> titer.i,
                          kind |-> "done"]
               /\ hist' = [hist EXCEPT !.skipped = TRUE]
               /\ pc' = pc
          ELSE /\ \E k \in OutsideTermlist :
                     ret' = [op |-> "skip_to", term |-> term, from |-> titer.i,
                             kind |-> k]
               /\ pc' = "undefined"
               /\ UNCHANGED <<titer, hist>>
    /\ UNCHANGED <<pt, cluster, clusters, mset, docs, tlg, km, ncalls>>

NextIter ==
    \/ termlist_begin
    \/ iter_next
    \/ iter_at_end
    \/ iter_get
    \/ \E term \in Terms : iter_skip_to(term)

SpecIter == InitIter /\ [][NextIter]_vars

\* C15: the loop from termlist_begin() by next() until at_end() yields every
\* termlist entry exactly once, in insertion order: the first next() leaves
\* the iterator on the first entry, each later next() advances by one,
\* at_end() is true exactly when every entry has been passed, and on an empty
\* termlist it is true after the first next() with nothing dereferenced.
IterationYieldsEveryEntryOnce ==
    (pc \in {"next", "test", "body", "done"} /\ ~hist.skipped) =>
        /\ hist.seen = SubSeq(pt.termlist, 1, Len(hist.seen))
        /\ pc \in {"test", "body"} => titer.i = Len(hist.seen)
        /\ pc = "test" => (PointTermIterator_at_end(titer) <=>
                              Len(hist.seen) = Len(pt.termlist))
        /\ pc = "body" => titer.i < titer.end
        /\ pc = "done" => /\ hist.seen = pt.termlist
                          /\ hist.nexts = Len(pt.termlist) + 1

\* C15 witness: a loop over the four entries a, b, b, c has finished.
IterationWitness ==
    /\ pc = "done"
    /\ ~hist.skipped
    /\ Len(hist.seen) = 4

\* Term is at or after the 0-based position from of the termlist.
PresentFrom(termlist, term, from) ==
    \E j \in from..(Len(termlist) - 1) : termlist[j + 1].term = term

\* C16: when term is present at or after the current position, skip_to(term)
\* ends on the first entry at or after that position whose term is term; it
\* never moves backwards, never passes the end, and does not move when the
\* current entry is term already.
SkipToFindsFirst ==
    (ret.op = "skip_to" /\ PresentFrom(pt.termlist, ret.term, ret.from)) =>
        /\ ret.kind = "done"
        /\ titer.i >= ret.from
        /\ titer.i < titer.end
        /\ PointTermIterator_entry(titer, pt.termlist).term = ret.term
        /\ \A j \in ret.from..(titer.i - 1) : pt.termlist[j + 1].term # ret.term
        /\ pt.termlist[ret.from + 1].term = ret.term => titer.i = ret.from

\* C16 witness: a skip from the first b of a, b, b, c to c, over the second b.
SkipToWitness ==
    /\ ret.op = "skip_to"
    /\ ret.kind = "done"
    /\ ret.from = 1
    /\ titer.i = 3

====
